---------------------------- MODULE Spec2Model ----------------------------
(***************************************************************************)
(* FaceShield, server-side face blur (src/blur-faces.js).                  *)
(*                                                                         *)
(* The module models separableGaussianBlur, the blurFaces pipeline and     *)
(* the command-line guards around it.                                      *)
(*                                                                         *)
(* Numbers.  JavaScript numbers are modelled in binary fixed point, every  *)
(* product and sum kept below 2^31:                                        *)
(*   - pixel samples (Uint8ClampedArray) are the integers 0..255;          *)
(*   - kernel[i] after Math.exp (a Float32Array slot holding a value in    *)
(*     (0, 1]) has 22 fractional bits;                                     *)
(*   - kernel[i] after normalisation has 30 fractional bits and is rounded *)
(*     to a 24-bit significand, as a Float32Array store does;              *)
(*   - tmp (Float32Array, values up to 255) has 15 fractional bits;        *)
(*   - the accumulators r, g, b, a (doubles) are exact to 2^-30 of a       *)
(*     sample.                                                             *)
(* Coordinates of the expanded face box are multiples of 0.1 px and are    *)
(* kept in tenths of a pixel, so the padding arithmetic is exact.          *)
(***************************************************************************)
EXTENDS Integers, Sequences, FiniteSets, TLC

\* ------------------------------------------------------------------------
\* Configuration
\* ------------------------------------------------------------------------

BLUR_RADIUS == 15

FEATHER_RADIUS == 34

\* ------------------------------------------------------------------------
\* Fixed-point arithmetic
\* ------------------------------------------------------------------------

Min(a, b) == IF a < b THEN a ELSE b

Max(a, b) == IF a > b THEN a ELSE b

Abs(a) == IF a < 0 THEN -a ELSE a

\* Math.exp's result as stored in the Float32Array: 22 fractional bits.
ExpOne == 2^22

\* The running sum of the exponential series: 20 fractional bits.
SeriesOne == 2^20

\* A normalised kernel weight: 30 fractional bits.
WeightOne == 2^30

\* A float32 significand has 24 bits.
Float32Limit == 2^24

\* Limb of the split multiplication; tmp has as many fractional bits (15).
Limb == 2^15

\* TLC evaluates a function expression point by point, anew at every
\* application; merging it with the empty function tabulates it once.
Table(f) == f @@ <<>>

\* <<q, r>> with a * b = q * c + r and 0 <= r < c, for 0 <= a < 2^27,
\* 0 <= b and 0 < c < 2^28, by long multiplication in base 4 (no
\* intermediate reaches 2^31).
RECURSIVE MulDiv(_, _, _)
MulDiv(a, b, c) ==
    IF b = 0 THEN <<0, 0>>
    ELSE LET high == MulDiv(a, b \div 4, c)
             t    == 4 * high[2] + (b % 4) * (a % c)
         IN  <<4 * high[1] + (b % 4) * (a \div c) + (t \div c), t % c>>

\* a * b / c rounded to the nearest integer.
MulDivRound(a, b, c) ==
    LET qr == MulDiv(a, b, c)
    IN  IF 2 * qr[2] >= c THEN qr[1] + 1 ELSE qr[1]

\* x / d rounded to the nearest integer, ties to even.
RoundHalfEven(x, d) ==
    LET q == x \div d
        r == x % d
    IN  IF 2 * r > d \/ (2 * r = d /\ q % 2 = 1) THEN q + 1 ELSE q

\* The spacing of the float32 numbers around x >= 0, in x's unit.
RECURSIVE Ulp(_)
Ulp(x) == IF x < Float32Limit THEN 1 ELSE 2 * Ulp(x \div 2)

\* A store into a Float32Array: x >= 0 rounded to a 24-bit significand.
Fround(x) ==
    LET ulp == Ulp(x)
    IN  RoundHalfEven(x, ulp) * ulp

\* f[lo] + ... + f[hi] by halving (lo <= hi).
RECURSIVE SumRange(_, _, _)
SumRange(f, lo, hi) ==
    IF lo = hi THEN f[lo]
    ELSE LET mid == (lo + hi) \div 2
         IN  SumRange(f, lo, mid) + SumRange(f, mid + 1, hi)

\* ------------------------------------------------------------------------
\* separableGaussianBlur: the kernel
\* ------------------------------------------------------------------------

\* sigma = Math.max(1, radius / 2.5), in fifths: sigma = Sigma5(radius) / 5.
Sigma5(radius) == Max(5, 2 * radius)

\* kHalf = Math.ceil(sigma * 3)
KHalf(radius) == (3 * Sigma5(radius) + 4) \div 5

\* kLen = kHalf * 2 + 1
KLen(radius) == KHalf(radius) * 2 + 1

\* The series 1 + t + t^2/2! + ... for t = n / d, from its j-th term `term`
\* on, scaled by SeriesOne.
RECURSIVE ExpSeries(_, _, _, _)
ExpSeries(term, j, n, d) ==
    IF term = 0 THEN 0
    ELSE term + ExpSeries(MulDiv(term, n, d * j)[1], j + 1, n, d)

\* Math.exp(-(n / d)) for n >= 0, d > 0, scaled by ExpOne: the
\* reciprocal of the series for exp(n / d).
ExpNeg(n, d) ==
    LET e == ExpSeries(SeriesOne, 1, n, d)
    IN  IF e = 0 THEN 0 ELSE MulDivRound(ExpOne, SeriesOne, e)

\* kernel[i] = Math.exp(-(x * x) / (2 * sigma * sigma)) with x = i - kHalf.
RawWeight(radius, ki) ==
    LET x == ki - KHalf(radius)
    IN  ExpNeg(25 * x * x, 2 * Sigma5(radius) * Sigma5(radius))

\* The kernel after the first loop.
RawKernel(radius) == Table([ki \in 0 .. KLen(radius) - 1 |-> RawWeight(radius, ki)])

\* kSum
KSum(raw) == SumRange(raw, 0, Cardinality(DOMAIN raw) - 1)

\* Faulty variant of Normalise: the division by kSum left out.
NormaliseSkipped(rawi, kSum) == Fround(rawi * (WeightOne \div ExpOne))

\* kernel[i] /= kSum, stored back into the Float32Array.
Normalise(rawi, kSum) == Fround(MulDivRound(rawi, WeightOne, kSum))

\* The kernel separableGaussianBlur builds for `radius`: kernel[0 .. kLen-1],
\* each weight scaled by WeightOne.
BuildKernel(radius) ==
    LET raw  == RawKernel(radius)
        kSum == KSum(raw)
    IN  Table([ki \in 0 .. KLen(radius) - 1 |-> Normalise(raw[ki], kSum)])

\* ------------------------------------------------------------------------
\* separableGaussianBlur: the two passes
\* ------------------------------------------------------------------------

\* Faulty variant of ClampIndex: the upper limit is n instead of n - 1.
ClampOffByOne(c, n) == Min(n, Max(0, c))

\* Faulty variant of ClampIndex: indices wrap around instead of clamping.
ClampWrap(c, n) == c % n

\* Math.min(n - 1, Math.max(0, c)): clamp-to-edge.
ClampIndex(c, n) == Min(n - 1, Max(0, c))

\* idx = (row * w + sc) * 4 of the horizontal pass, sc the clamped column.
HIndex(row, col, k, w) == (row * w + ClampIndex(col + k, w)) * 4

\* idx = (sr * w + col) * 4 of the vertical pass, sr the clamped row.
VIndex(row, col, k, w, h) == (ClampIndex(row + k, h) * w + col) * 4

\* sample * wt, exact to 2^-30 of the sample's unit, as the four partial
\* products of the operands' limbs (the lowest already shifted down).
Product(sample, wt) ==
    LET a1 == sample \div Limb
        a0 == sample % Limb
        b1 == wt \div Limb
        b0 == wt % Limb
    IN  <<a1 * b1, a1 * b0, a0 * b1, (a0 * b0) \div Limb>>

\* r += ... over the taps lo .. hi, by halving: the sums of the partial
\* products.
RECURSIVE Accumulate(_, _, _)
Accumulate(terms, lo, hi) ==
    IF lo = hi THEN terms[lo]
    ELSE LET mid == (lo + hi) \div 2
             x   == Accumulate(terms, lo, mid)
             y   == Accumulate(terms, mid + 1, hi)
         IN  <<x[1] + y[1], x[2] + y[2], x[3] + y[3], x[4] + y[4]>>

\* The accumulator's value as <<whole, fraction>>, the fraction in 1/Limb.
AccValue(acc) ==
    LET low == (acc[2] % Limb) + (acc[3] % Limb) + (acc[4] % Limb)
    IN  <<acc[1] + (acc[2] \div Limb) + (acc[3] \div Limb)
              + (acc[4] \div Limb) + (low \div Limb),
          low % Limb>>

\* Faulty variant of TmpStore: tmp holds integers (a Uint8Array), so the
\* store drops the fraction.
TmpStoreInteger(acc) == AccValue(acc)[1] * Limb

\* tmp[oi] = r: the Float32Array store, scaled by Limb.
TmpStore(acc) == LET v == AccValue(acc) IN v[1] * Limb + v[2]

\* out[oi] = r: the Uint8ClampedArray store of a tmp-scaled sum, rounded to
\* the nearest integer (ties to even) and clamped to 0 .. 255.
Uint8ClampedStore(acc) ==
    LET v    == AccValue(acc)
        q    == v[1] \div Limb
        r    == v[1] % Limb
        half == Limb \div 2
        up   == r > half \/ (r = half /\ (v[2] > 0 \/ q % 2 = 1))
    IN  Min(255, IF up THEN q + 1 ELSE q)

\* Horizontal pass: src -> tmp.
HorizontalPass(src, w, h, kHalf, kernel) ==
    Table([oi \in 0 .. w * h * 4 - 1 |->
        LET ch  == oi % 4
            row == (oi \div 4) \div w
            col == (oi \div 4) % w
            terms == [j \in 0 .. 2 * kHalf |->
                        Product(src[HIndex(row, col, j - kHalf, w) + ch], kernel[j])]
        IN  TmpStore(Accumulate(terms, 0, 2 * kHalf))])

\* Vertical pass: tmp -> out.
VerticalPass(tmp, w, h, kHalf, kernel) ==
    Table([oi \in 0 .. w * h * 4 - 1 |->
        LET ch  == oi % 4
            row == (oi \div 4) \div w
            col == (oi \div 4) % w
            terms == [j \in 0 .. 2 * kHalf |->
                        Product(tmp[VIndex(row, col, j - kHalf, w, h) + ch], kernel[j])]
        IN  Uint8ClampedStore(Accumulate(terms, 0, 2 * kHalf))])

\* The radii separableGaussianBlur is called with: the two configured ones
\* and, for the function on its own, radii around the sigma clamp.
Radii == {BLUR_RADIUS, FEATHER_RADIUS} \cup (-1 .. 4)

\* The kernel depends on the radius alone: built once per radius.
KernelOf == Table([radius \in Radii |-> BuildKernel(radius)])

\* separableGaussianBlur(src, w, h, radius): src is data[0 .. w*h*4-1].
separableGaussianBlur(src, w, h, radius) ==
    LET kernel == KernelOf[radius]
        tmp    == HorizontalPass(src, w, h, KHalf(radius), kernel)
    IN  VerticalPass(tmp, w, h, KHalf(radius), kernel)

\* ------------------------------------------------------------------------
\* The canvas (node-canvas), as blurFaces uses it
\* ------------------------------------------------------------------------
\* A canvas or a decoded image is [w, h, data], data the RGBA samples that
\* getImageData returns: data[(row * w + col) * 4 + ch], not premultiplied.
\* Compositing rounds each 8-bit result to the nearest integer.

\* x / d rounded to the nearest integer (x >= 0, d > 0).
RoundDiv(x, d) == (2 * x + d) \div (2 * d)

\* Index of the alpha sample of the pixel that sample oi belongs to.
AlphaOf(oi) == (oi \div 4) * 4 + 3

\* A variable no canvas has been assigned to yet.
NoCanvas == [w |-> 0, h |-> 0, data |-> <<>>]

\* createCanvas(w, h): transparent black.
createCanvas(w, h) == [w |-> w, h |-> h, data |-> Table([oi \in 0 .. w * h * 4 - 1 |-> 0])]

\* Faulty variant of SourceOverSample: the operands are swapped, which is
\* 'destination-over'.
DestinationOverSample(isAlpha, s, sa, d, da) ==
    LET outA == 255 * da + sa * (255 - da)
    IN  IF isAlpha THEN RoundDiv(outA, 255)
        ELSE IF outA = 0 THEN 0
        ELSE RoundDiv(d * da * 255 + s * sa * (255 - da), outA)

\* One sample of drawImage under globalCompositeOperation 'source-over':
\* s, sa the source sample and alpha, d, da the destination's.
SourceOverSample(isAlpha, s, sa, d, da) ==
    LET outA == 255 * sa + da * (255 - sa)
    IN  IF isAlpha THEN RoundDiv(outA, 255)
        ELSE IF outA = 0 THEN 0
        ELSE RoundDiv(s * sa * 255 + d * da * (255 - sa), outA)

\* Faulty variant of DestinationInSample: the destination's alpha is kept,
\* so the mask clips nothing.
DestinationKeptSample(isAlpha, s, sa, d, da) == d

\* One sample of drawImage under 'destination-in': the destination kept
\* where the source is opaque.
DestinationInSample(isAlpha, s, sa, d, da) ==
    IF isAlpha THEN RoundDiv(da * sa, 255) ELSE d

\* ctx.drawImage(source, 0, 0) on a canvas of the same size, under
\* 'source-over'.
drawImage(dst, source) ==
    [dst EXCEPT !.data = Table([oi \in 0 .. dst.w * dst.h * 4 - 1 |->
        SourceOverSample(oi % 4 = 3, source.data[oi], source.data[AlphaOf(oi)],
                         dst.data[oi], dst.data[AlphaOf(oi)])])]

\* ctx.drawImage(source, 0, 0) under 'destination-in'.
drawImageDestinationIn(dst, source) ==
    [dst EXCEPT !.data = Table([oi \in 0 .. dst.w * dst.h * 4 - 1 |->
        DestinationInSample(oi % 4 = 3, source.data[oi], source.data[AlphaOf(oi)],
                            dst.data[oi], dst.data[AlphaOf(oi)])])]

\* ctx.putImageData(new ImageData(data, w, h), 0, 0)
putImageData(dst, data) == [dst EXCEPT !.data = data]

\* ------------------------------------------------------------------------
\* blurFaces: the face region
\* ------------------------------------------------------------------------
\* A detection box is [x, y, width, height] in pixels.  The expanded box
\* [fx, fy, fw, fh] is kept in tenths of a pixel.

\* padX = box.width * 0.2, in tenths of a pixel.
PadX(box) == 2 * box.width

\* padY = box.height * 0.2, in tenths of a pixel.
PadY(box) == 2 * box.height

\* Faulty variant of ExpandBox: fw and fh are not cut at the canvas's edges.
ExpandBoxUncut(box, w, h) ==
    [fx |-> Max(0, 10 * box.x - PadX(box)),
     fy |-> Max(0, 10 * box.y - (PadY(box) * 3) \div 2),
     fw |-> 10 * box.width + PadX(box) * 2,
     fh |-> 10 * box.height + (PadY(box) * 5) \div 2]

\* fx, fy, fw, fh of the expanded bounding box on a w x h canvas.
ExpandBox(box, w, h) ==
    LET fx == Max(0, 10 * box.x - PadX(box))
        fy == Max(0, 10 * box.y - (PadY(box) * 3) \div 2)
    IN  [fx |-> fx,
         fy |-> fy,
         fw |-> Min(10 * w - fx, 10 * box.width + PadX(box) * 2),
         fh |-> Min(10 * h - fy, 10 * box.height + (PadY(box) * 5) \div 2)]

\* Whether maskCtx.ellipse(fx + fw/2, fy + fh/2, fw/2, fh/2, 0, 0, 2*PI)
\* followed by fill() covers pixel (col, row): its centre lies in the
\* ellipse.  Lengths are in twentieths of a pixel.
InEllipse(f, col, row) ==
    LET dx == 20 * col + 10 - (2 * f.fx + f.fw)
        dy == 20 * row + 10 - (2 * f.fy + f.fh)
    IN  /\ f.fw > 0
        /\ f.fh > 0
        /\ dx * dx * f.fh * f.fh + dy * dy * f.fw * f.fw <= f.fw * f.fw * f.fh * f.fh

\* The mask canvas: cleared, then the ellipse filled with '#fff'.
FillEllipse(f, w, h) ==
    [w |-> w, h |-> h,
     data |-> Table([oi \in 0 .. w * h * 4 - 1 |->
                 IF InEllipse(f, (oi \div 4) % w, (oi \div 4) \div w) THEN 255 ELSE 0])]

\* ------------------------------------------------------------------------
\* Inputs
\* ------------------------------------------------------------------------

\* Longest list of detections the detector returns.
MaxFaces == 2

\* Width of the one-row images of the wide runs.
WideWidth == 54

\* Largest width and height separableGaussianBlur is called with on its own.
MaxSide == 3

\* The RGBA value of pixel (col, row) of a decoded w x h image of a kind.
PixelOf(kind, col, row) ==
    CASE kind = "uniform" -> <<90, 160, 30, 255>>
      [] kind = "spot"    -> IF col = 0 /\ row = 0 THEN <<250, 130, 40, 255>>
                             ELSE <<10, 60, 200, 255>>
      [] kind = "ramp"    -> <<(61 * col + 97 * row) % 256, (200 + 23 * col) % 256,
                               (35 * row + 7 * col) % 256, 255>>
      [] kind = "veil"    -> IF col = 0 /\ row = 0 THEN <<250, 130, 40, 128>>
                             ELSE <<10, 60, 200, 128>>
      [] kind = "fade"    -> <<(61 * col + 97 * row) % 256, 120, 9,
                               255 - 60 * col - 20 * row>>

ImageOf(kind, w, h) ==
    [w |-> w, h |-> h,
     data |-> Table([oi \in 0 .. w * h * 4 - 1 |->
                 PixelOf(kind, (oi \div 4) % w, (oi \div 4) \div w)[(oi % 4) + 1]])]

\* The images loadImage may decode: opaque and translucent ones, of a size
\* whose inscribed ellipse covers every pixel centre (3 x 2) and of one
\* whose corners it leaves out (4 x 4).
Images ==
    {ImageOf(kind, 3, 2) : kind \in {"spot", "ramp", "veil"}}
        \cup {ImageOf(kind, 4, 4) : kind \in {"spot", "fade"}}

\* A one-row opaque image, black but for one white pixel at column c.
WideImage(c) ==
    [w |-> WideWidth, h |-> 1,
     data |-> Table([oi \in 0 .. WideWidth * 4 - 1 |->
                 IF oi % 4 = 3 \/ oi \div 4 = c THEN 255 ELSE 0])]

WideImages == {WideImage(c) : c \in {45, 46, 47, 52}}

Box(x, y, width, height) == [x |-> x, y |-> y, width |-> width, height |-> height]

\* The boxes the detector may report on a w x h image: the whole image, a
\* box inside it, one along its right edge, one that leaves it.
BoxesOf(w, h) ==
    {Box(0, 0, w, h), Box(1, 0, 1, 1), Box(w - 2, 0, 2, h), Box(w - 1, h - 1, 2, 2)}

RECURSIVE ListsOf(_, _)
ListsOf(S, n) ==
    IF n = 0 THEN {<<>>}
    ELSE LET shorter == ListsOf(S, n - 1)
         IN  shorter \cup {Append(l, b) : l \in {m \in shorter : Len(m) = n - 1}, b \in S}

\* The detector's possible results on a w x h image.
DetectionsOf(w, h) == ListsOf(BoxesOf(w, h), MaxFaces)

\* Two adjacent, non-overlapping boxes at the left of a one-row image.
LeftBox == Box(0, 0, 5, 1)

RightBox == Box(5, 0, 5, 1)

WideDetections == {<<>>, <<LeftBox>>, <<LeftBox, RightBox>>, <<RightBox, LeftBox>>}

\* The uniform and the non-uniform buffers separableGaussianBlur is called
\* with on its own.
BlurSources ==
    {ImageOf(kind, w, h) : kind \in {"uniform", "ramp", "fade"},
                           w \in 1 .. MaxSide, h \in 1 .. MaxSide}
      \cup {[w |-> w, h |-> h, data |-> Table([oi \in 0 .. w * h * 4 - 1 |-> v])] :
               v \in {0, 1, 127, 200, 255}, w \in 1 .. MaxSide, h \in 1 .. MaxSide}

\* ------------------------------------------------------------------------
\* State
\* ------------------------------------------------------------------------

VARIABLES
    pc,             \* where the process is
    exitCode,       \* the process's exit code
    err,            \* the step whose error the catch handler received
    writes,         \* calls of fs.writeFileSync on the output path
    encoded,        \* the pixels handed to canvas.toBuffer for the output
    img,            \* the decoded input image
    canvas,         \* the main canvas (ctx)
    detections,     \* the detector's result
    blurredCanvas,  \* the fully blurred image
    i,              \* forEach: index of the current face, from 1
    face,           \* fx, fy, fw, fh of the current face
    maskCanvas,
    featherCanvas,
    patchCanvas,
    bpc,            \* separableGaussianBlur on its own: "ready" or "done"
    bsrc,           \*   its src, w, h
    bradius,        \*   its radius
    bkernel,        \*   the kernel it built
    bout            \*   the buffer it returned

pipeline ==
    <<pc, exitCode, err, writes, encoded, img, canvas, detections, blurredCanvas,
      i, face, maskCanvas, featherCanvas, patchCanvas>>

blurCall == <<bpc, bsrc, bradius, bkernel, bout>>

vars == <<pipeline, blurCall>>

NoFace == [fx |-> 0, fy |-> 0, fw |-> 0, fh |-> 0]

InitPipeline ==
    /\ pc = "cli"
    /\ exitCode = 0
    /\ err = "none"
    /\ writes = 0
    /\ encoded = <<>>
    /\ img = NoCanvas
    /\ canvas = NoCanvas
    /\ detections = <<>>
    /\ blurredCanvas = NoCanvas
    /\ i = 0
    /\ face = NoFace
    /\ maskCanvas = NoCanvas
    /\ featherCanvas = NoCanvas
    /\ patchCanvas = NoCanvas

Init ==
    /\ InitPipeline
    /\ bpc = "ready"
    /\ bsrc = NoCanvas
    /\ bradius = 0
    /\ bkernel = <<>>
    /\ bout = <<>>

\* ------------------------------------------------------------------------
\* The command line
\* ------------------------------------------------------------------------

\* args.length < 1: usage message, process.exit(1).
Usage ==
    /\ pc = "cli"
    /\ pc' = "exited"
    /\ exitCode' = 1
    /\ UNCHANGED <<err, writes, encoded, img, canvas, detections, blurredCanvas,
                   i, face, maskCanvas, featherCanvas, patchCanvas, blurCall>>

\* !fs.existsSync(inputFile): process.exit(1).
FileNotFound ==
    /\ pc = "cli"
    /\ pc' = "exited"
    /\ exitCode' = 1
    /\ err' = "notFound"
    /\ UNCHANGED <<writes, encoded, img, canvas, detections, blurredCanvas,
                   i, face, maskCanvas, featherCanvas, patchCanvas, blurCall>>

\* blurFaces(inputFile, outputFile) is called.
Start ==
    /\ pc = "cli"
    /\ pc' = "loadModels"
    /\ UNCHANGED <<exitCode, err, writes, encoded, img, canvas, detections,
                   blurredCanvas, i, face, maskCanvas, featherCanvas, patchCanvas,
                   blurCall>>

\* ------------------------------------------------------------------------
\* blurFaces
\* ------------------------------------------------------------------------

\* 1. Load models.
LoadModels ==
    /\ pc = "loadModels"
    /\ pc' = "loadImage"
    /\ UNCHANGED <<exitCode, err, writes, encoded, img, canvas, detections,
                   blurredCanvas, i, face, maskCanvas, featherCanvas, patchCanvas,
                   blurCall>>

\* 2. Load the input image `im` and draw it onto the main canvas.
LoadImage(im) ==
    /\ pc = "loadImage"
    /\ img' = im
    /\ canvas' = drawImage(createCanvas(im.w, im.h), im)
    /\ pc' = "detect"
    /\ UNCHANGED <<exitCode, err, writes, encoded, detections, blurredCanvas,
                   i, face, maskCanvas, featherCanvas, patchCanvas, blurCall>>

\* 3. Detect faces: the detector returns the list d.
Detect(d) ==
    /\ pc = "detect"
    /\ detections' = d
    /\ pc' = "detected"
    /\ UNCHANGED <<exitCode, err, writes, encoded, img, canvas, blurredCanvas,
                   i, face, maskCanvas, featherCanvas, patchCanvas, blurCall>>

\* Faulty variant of NoFaces: the test is for a single detection.
NoFacesOne(d) == Len(d) = 1

\* detections.length === 0
NoFaces(d) == Len(d) = 0

\* No faces: the main canvas is saved as it is, and blurFaces returns.
SaveUnmodified ==
    /\ pc = "detected"
    /\ NoFaces(detections)
    /\ encoded' = canvas.data
    /\ writes' = writes + 1
    /\ pc' = "done"
    /\ UNCHANGED <<exitCode, err, img, canvas, detections, blurredCanvas,
                   i, face, maskCanvas, featherCanvas, patchCanvas, blurCall>>

\* 4. The fully blurred version of the image; forEach then starts.
BaseBlur ==
    /\ pc = "detected"
    /\ ~NoFaces(detections)
    /\ LET drawn == drawImage(createCanvas(img.w, img.h), img)
       IN  blurredCanvas' =
               putImageData(drawn,
                   separableGaussianBlur(drawn.data, img.w, img.h, BLUR_RADIUS))
    /\ i' = 1
    /\ pc' = "mask"
    /\ UNCHANGED <<exitCode, err, writes, encoded, img, canvas, detections,
                   face, maskCanvas, featherCanvas, patchCanvas, blurCall>>

\* det of the current forEach iteration.
CurrentBox == detections[i]

\* 5.1 The expanded box and the mask: an opaque ellipse over the face.
Mask ==
    /\ pc = "mask"
    /\ face' = ExpandBox(CurrentBox, img.w, img.h)
    /\ maskCanvas' = FillEllipse(face', img.w, img.h)
    /\ pc' = "feather"
    /\ UNCHANGED <<exitCode, err, writes, encoded, img, canvas, detections,
                   blurredCanvas, i, featherCanvas, patchCanvas, blurCall>>

\* 5.2 The mask feathered by a Gaussian blur.
Feather ==
    /\ pc = "feather"
    /\ featherCanvas' =
           putImageData(createCanvas(img.w, img.h),
               separableGaussianBlur(maskCanvas.data, img.w, img.h, FEATHER_RADIUS))
    /\ pc' = "patch"
    /\ UNCHANGED <<exitCode, err, writes, encoded, img, canvas, detections,
                   blurredCanvas, i, face, maskCanvas, patchCanvas, blurCall>>

\* 5.3 The blurred image clipped by the feathered mask.
Patch ==
    /\ pc = "patch"
    /\ patchCanvas' =
           drawImageDestinationIn(
               drawImage(createCanvas(img.w, img.h), blurredCanvas), featherCanvas)
    /\ pc' = "composite"
    /\ UNCHANGED <<exitCode, err, writes, encoded, img, canvas, detections,
                   blurredCanvas, i, face, maskCanvas, featherCanvas, blurCall>>

\* Faulty variant of MainCtx: every patch is drawn over a fresh copy of the
\* decoded image.
OriginalCtx == drawImage(createCanvas(img.w, img.h), img)

\* ctx: the context of the main canvas.
MainCtx == canvas

\* Faulty variant of LoopDone: forEach stops one detection early.
LoopDoneEarly(k, n) == k >= n - 1

\* Whether forEach has passed the last of n detections after iteration k.
LoopDone(k, n) == k >= n

\* 5.4 The patch composited onto the main canvas; forEach moves on.
Composite ==
    /\ pc = "composite"
    /\ canvas' = drawImage(MainCtx, patchCanvas)
    /\ i' = i + 1
    /\ pc' = IF LoopDone(i, Len(detections)) THEN "save" ELSE "mask"
    /\ UNCHANGED <<exitCode, err, writes, encoded, img, detections, blurredCanvas,
                   face, maskCanvas, featherCanvas, patchCanvas, blurCall>>

\* 6. Save the result.
Save ==
    /\ pc = "save"
    /\ encoded' = canvas.data
    /\ writes' = writes + 1
    /\ pc' = "done"
    /\ UNCHANGED <<exitCode, err, img, canvas, detections, blurredCanvas,
                   i, face, maskCanvas, featherCanvas, patchCanvas, blurCall>>

\* The steps of blurFaces, each of which may throw before it has any effect.
Steps ==
    {"loadModels", "loadImage", "detect", "detected", "mask", "feather", "patch",
     "composite", "save"}

\* A step throws: blurFaces rejects, the catch handler reports the error and
\* calls process.exit(1).
Throw ==
    /\ pc \in Steps
    /\ err' = pc
    /\ exitCode' = 1
    /\ pc' = "failed"
    /\ UNCHANGED <<writes, encoded, img, canvas, detections, blurredCanvas,
                   i, face, maskCanvas, featherCanvas, patchCanvas, blurCall>>

\* fs.writeFileSync itself throws: the call was made, then the catch handler
\* runs.
WriteThrows ==
    /\ \/ pc = "save"
       \/ pc = "detected" /\ NoFaces(detections)
    /\ writes' = writes + 1
    /\ err' = "write"
    /\ exitCode' = 1
    /\ pc' = "failed"
    /\ UNCHANGED <<encoded, img, canvas, detections, blurredCanvas,
                   i, face, maskCanvas, featherCanvas, patchCanvas, blurCall>>

Next ==
    \/ Usage
    \/ FileNotFound
    \/ Start
    \/ LoadModels
    \/ \E im \in Images : LoadImage(im)
    \/ \E d \in DetectionsOf(img.w, img.h) : Detect(d)
    \/ SaveUnmodified
    \/ BaseBlur
    \/ Mask
    \/ Feather
    \/ Patch
    \/ Composite
    \/ Save
    \/ Throw
    \/ WriteThrows

Spec == Init /\ [][Next]_vars

\* The same program on one-row images wide enough for pixels to lie beyond
\* the reach of the feathering kernel.
NextWide ==
    \/ Usage
    \/ FileNotFound
    \/ Start
    \/ LoadModels
    \/ \E im \in WideImages : LoadImage(im)
    \/ \E d \in WideDetections : Detect(d)
    \/ SaveUnmodified
    \/ BaseBlur
    \/ Mask
    \/ Feather
    \/ Patch
    \/ Composite
    \/ Save
    \/ Throw
    \/ WriteThrows

SpecWide == Init /\ [][NextWide]_vars

\* ------------------------------------------------------------------------
\* separableGaussianBlur on its own
\* ------------------------------------------------------------------------

InitBlur ==
    /\ InitPipeline
    /\ bpc = "ready"
    /\ bsrc \in BlurSources
    /\ bradius \in Radii
    /\ bkernel = <<>>
    /\ bout = <<>>

\* The call separableGaussianBlur(src, w, h, radius) returns.
BlurCall ==
    /\ bpc = "ready"
    /\ bkernel' = KernelOf[bradius]
    /\ bout' = separableGaussianBlur(bsrc.data, bsrc.w, bsrc.h, bradius)
    /\ bpc' = "done"
    /\ UNCHANGED <<pipeline, bsrc, bradius>>

NextBlur == BlurCall

SpecBlur == InitBlur /\ [][NextBlur]_vars

\* ------------------------------------------------------------------------
\* Properties of separableGaussianBlur (checked under SpecBlur)
\* ------------------------------------------------------------------------

\* Whether every pixel of buffer c has the RGBA value of its first pixel.
Uniform(c) == \A oi \in DOMAIN c.data : c.data[oi] = c.data[oi % 4]

\* C5: for a buffer in which every pixel has the same RGBA value,
\* separableGaussianBlur returns, for every width, height and radius, a
\* buffer in which every pixel (edges and corners included) has exactly
\* that value.
UniformPreserved ==
    (bpc = "done" /\ Uniform(bsrc)) => bout = bsrc.data

\* C5 happens: a uniform buffer with more than one pixel was blurred with
\* a kernel wider than the buffer, and came back as it was.
UniformPreservedWitness ==
    /\ bpc = "done"
    /\ Uniform(bsrc)
    /\ bsrc.w > 1
    /\ bsrc.h > 1
    /\ bradius = BLUR_RADIUS
    /\ bsrc.data[0] \notin {0, 255}
    /\ bout = bsrc.data

\* Number of weights of kernel k.
KernelLength(k) == Cardinality(DOMAIN k)

\* Whether the weights of kernel k sum to 1 within 1e-6.  The sum is taken
\* limb by limb: <<whole, rest>> stands for whole * Limb + rest.
SumsToOne(k) ==
    LET len   == KernelLength(k)
        high  == SumRange([ki \in 0 .. len - 1 |-> k[ki] \div Limb], 0, len - 1)
        low   == SumRange([ki \in 0 .. len - 1 |-> k[ki] % Limb], 0, len - 1)
        whole == high + (low \div Limb)
        rest  == low % Limb
        tol   == WeightOne \div 1000000
    IN  \/ whole = Limb /\ rest <= tol
        \/ whole = Limb - 1 /\ Limb - rest <= tol

\* C8: for every radius, radius <= 0 included, the kernel is built (kLen
\* weights for kLen = 2 * ceil(3 * sigma) + 1 >= 1, the normalising sum
\* positive), is symmetric (weights[i] = weights[len - 1 - i]) and its
\* weights sum to 1 within 1e-6.
KernelValid ==
    bpc = "done" =>
        LET len == KernelLength(bkernel)
        IN  /\ len = KLen(bradius)
            /\ len >= 1
            /\ DOMAIN bkernel = 0 .. len - 1
            /\ KSum(RawKernel(bradius)) > 0
            /\ \A ki \in 0 .. len - 1 :
                   /\ bkernel[ki] \in 0 .. WeightOne
                   /\ bkernel[ki] = bkernel[len - 1 - ki]
            /\ SumsToOne(bkernel)

\* C8 happens: a kernel was built for a radius <= 0, with sigma clamped to
\* 1 and so seven weights, the middle one the largest.
KernelValidWitness ==
    /\ bpc = "done"
    /\ bradius <= 0
    /\ KernelLength(bkernel) = 7
    /\ bkernel[3] > bkernel[2]
    /\ bkernel[0] > 0

\* Column (row) c clamped to 0 .. n - 1, written out by cases.
Clamped(c, n) == IF c < 0 THEN 0 ELSE IF c > n - 1 THEN n - 1 ELSE c

\* C9: in both passes, for every output pixel and every kernel offset k in
\* -kHalf .. kHalf, the sample read is the pixel at column
\* clamp(col + k, 0, w - 1) of the same row (horizontal pass) or at row
\* clamp(row + k, 0, h - 1) of the same column (vertical pass); no read
\* leaves the buffer or the row (column), also when kHalf exceeds w or h.
ReadsClamped ==
    \A row \in 0 .. bsrc.h - 1, col \in 0 .. bsrc.w - 1,
       k \in -KHalf(bradius) .. KHalf(bradius), ch \in 0 .. 3 :
        LET hidx == HIndex(row, col, k, bsrc.w) + ch
            vidx == VIndex(row, col, k, bsrc.w, bsrc.h) + ch
        IN  /\ hidx \in DOMAIN bsrc.data
            /\ (hidx \div 4) \div bsrc.w = row
            /\ (hidx \div 4) % bsrc.w = Clamped(col + k, bsrc.w)
            /\ hidx % 4 = ch
            /\ vidx \in DOMAIN bsrc.data
            /\ (vidx \div 4) % bsrc.w = col
            /\ (vidx \div 4) \div bsrc.w = Clamped(row + k, bsrc.h)
            /\ vidx % 4 = ch

\* C9 happens: a buffer of more than one row and column was blurred with a
\* kernel whose half-width exceeds both its width and its height.
ReadsClampedWitness ==
    /\ bpc = "done"
    /\ bsrc.w > 1
    /\ bsrc.h > 1
    /\ KHalf(bradius) > bsrc.w
    /\ KHalf(bradius) > bsrc.h
    /\ DOMAIN bout = DOMAIN bsrc.data

\* ------------------------------------------------------------------------
\* Properties of the pipeline (checked under Spec)
\* ------------------------------------------------------------------------

\* The canvases of steps 4 and 5 that have been created so far.
StepCanvases == {blurredCanvas, maskCanvas, featherCanvas, patchCanvas}

\* C1: when the detector returns an empty list, blurFaces ends right after
\* the detection: no base blur, mask, feather or composite step runs, and
\* the buffer handed to the encoder is byte-identical to the decoded input
\* (not to its blur).
NoFacesShortCircuit ==
    (pc \notin {"cli", "exited", "loadModels", "loadImage", "detect"}
        /\ Len(detections) = 0) =>
        /\ pc \in {"detected", "done", "failed"}
        /\ StepCanvases = {NoCanvas}
        /\ i = 0
        /\ canvas.data = img.data
        /\ pc = "done" => (encoded = img.data /\ writes = 1 /\ exitCode = 0)

\* C1 happens: an image whose blur differs from it was decoded, no face was
\* found, and the decoded pixels were saved.
NoFacesShortCircuitWitness ==
    /\ pc = "done"
    /\ Len(detections) = 0
    /\ writes = 1
    /\ encoded = img.data
    /\ encoded # separableGaussianBlur(img.data, img.w, img.h, BLUR_RADIUS)

\* Whether the output buffer is final: the short-circuit was taken, or
\* forEach has composited every region.
Finalized ==
    \/ pc \in {"detected", "done", "failed"} /\ Len(detections) = 0 /\ img # NoCanvas
    \/ pc \in {"save", "done", "failed"} /\ Len(detections) > 0
           /\ i = Len(detections) + 1

\* C7: the output file is written at most once, and only once the output
\* buffer is final (every region composited, or the short-circuit taken),
\* with the pixels of the main canvas; when loading, decoding, detection,
\* the blur, a region step or the encoding fails, no write has occurred
\* and the process exits with a non-zero code.
WriteOnceWhenFinal ==
    /\ writes \in {0, 1}
    /\ writes = 1 => (Finalized /\ pc \in {"done", "failed"})
    /\ pc = "done" => (writes = 1 /\ encoded = canvas.data /\ exitCode = 0)
    /\ pc = "failed" => exitCode = 1
    /\ (pc = "failed" /\ err # "write") => (writes = 0 /\ encoded = <<>>)
    /\ (pc = "failed" /\ err = "write") => Finalized

\* C7 happens: the second region's composite failed after the first region
\* had been composited; nothing was written and the exit code is 1.
WriteOnceWhenFinalWitness ==
    /\ pc = "failed"
    /\ err = "composite"
    /\ i = 2
    /\ canvas.data # img.data
    /\ writes = 0
    /\ exitCode = 1

\* Whether detection box b lies inside a w x h canvas.
InsideCanvas(b, w, h) ==
    /\ 0 <= b.x
    /\ 0 <= b.y
    /\ b.x + b.width <= w
    /\ b.y + b.height <= h
    /\ b.width > 0
    /\ b.height > 0

\* C10: for every detection box inside the canvas, the expanded box lies
\* inside the canvas (fx >= 0, fy >= 0, fx + fw <= canvasW,
\* fy + fh <= canvasH), has fw > 0 and fh > 0, and contains the box.
\* (face is in tenths of a pixel.)
ExpandedBoxInsideCanvas ==
    (pc \in {"feather", "patch", "composite"}
        /\ InsideCanvas(CurrentBox, img.w, img.h)) =>
        /\ face.fx >= 0
        /\ face.fy >= 0
        /\ face.fx + face.fw <= 10 * img.w
        /\ face.fy + face.fh <= 10 * img.h
        /\ face.fw > 0
        /\ face.fh > 0
        /\ face.fx <= 10 * CurrentBox.x
        /\ face.fy <= 10 * CurrentBox.y
        /\ face.fx + face.fw >= 10 * (CurrentBox.x + CurrentBox.width)
        /\ face.fy + face.fh >= 10 * (CurrentBox.y + CurrentBox.height)

\* C10 happens: a box inside the canvas whose padding on the right and at
\* the top leaves the canvas was expanded, and the expansion was cut at the
\* canvas's edges while the padding on the left was kept.
ExpandedBoxInsideCanvasWitness ==
    /\ pc = "feather"
    /\ InsideCanvas(CurrentBox, img.w, img.h)
    /\ CurrentBox.x > 0
    /\ face.fx > 0
    /\ face.fx < 10 * CurrentBox.x
    /\ face.fy = 0
    /\ face.fx + face.fw = 10 * img.w
    /\ face.fw < 10 * CurrentBox.width + PadX(CurrentBox) * 2

\* Whether every pixel of canvas c has alpha 255.
Opaque(c) == \A oi \in DOMAIN c.data : c.data[AlphaOf(oi)] = 255

\* Whether sample `out` is lerp(before, blurred, m / 255) to within one
\* 8-bit level.
IsLerp(out, before, blurred, m) ==
    Abs(255 * out - (before * (255 - m) + blurred * m)) < 255

\* Whether the main canvas after a composite step is, in every pixel and
\* channel, the lerp of the main canvas before it and the blurred image by
\* the feathered mask's opacity.
LerpStep ==
    \A oi \in DOMAIN canvas.data :
        IsLerp(canvas'.data[oi], canvas.data[oi], blurredCanvas.data[oi],
               featherCanvas.data[AlphaOf(oi)])

\* C2 as stated, refuted: for every image, images with alpha below 255
\* included, each composite step sets
\* output = lerp(output_so_far, blurred, mask_alpha / 255) in every pixel
\* and channel.
CompositeIsLerp ==
    [][(pc = "composite" /\ pc' \in {"mask", "save"}) => LerpStep]_vars

\* C2, amended: for every image whose alpha is 255 throughout, each
\* composite step sets output = lerp(output_so_far, blurred,
\* mask_alpha / 255) in every pixel and channel, to within 8-bit rounding.
CompositeIsLerpWhenOpaque ==
    [][(pc = "composite" /\ pc' \in {"mask", "save"} /\ Opaque(img)) => LerpStep]_vars

\* C2 happens: the first region of an opaque image was composited and some
\* sample, under a partly transparent mask, lies strictly between the
\* decoded and the blurred value.
CompositeIsLerpWitness ==
    /\ pc \in {"mask", "save"}
    /\ i = 2
    /\ Opaque(img)
    /\ \E oi \in DOMAIN canvas.data :
           /\ featherCanvas.data[AlphaOf(oi)] \in 1 .. 254
           /\ \/ img.data[oi] < canvas.data[oi]
                    /\ canvas.data[oi] < blurredCanvas.data[oi]
              \/ blurredCanvas.data[oi] < canvas.data[oi]
                    /\ canvas.data[oi] < img.data[oi]

\* The patch of one detection box: the blurred image clipped by the
\* feathered ellipse of the expanded box.
PatchOf(box) ==
    LET w       == img.w
        h       == img.h
        mask    == FillEllipse(ExpandBox(box, w, h), w, h)
        feather == putImageData(createCanvas(w, h),
                       separableGaussianBlur(mask.data, w, h, FEATHER_RADIUS))
    IN  drawImageDestinationIn(drawImage(createCanvas(w, h), blurredCanvas), feather)

\* The decoded image with the patches of the boxes of `list` composited
\* over it one after the other, first to last.
RECURSIVE ComposedInOrder(_)
ComposedInOrder(list) ==
    IF Len(list) = 0 THEN drawImage(createCanvas(img.w, img.h), img)
    ELSE drawImage(ComposedInOrder(SubSeq(list, 1, Len(list) - 1)),
                   PatchOf(list[Len(list)]))

\* C3: regions are composited one at a time, in the detector's order, onto
\* one accumulating buffer: when forEach turns to region k the main canvas
\* holds the composites of regions 1 .. k-1 in that order (and, at the
\* save, of all regions), each composited over the result of the ones
\* before it and never over the untouched original.
CompositesAccumulateInOrder ==
    /\ pc \in {"mask", "feather", "patch", "composite", "save"} =>
           i \in 1 .. Len(detections) + 1
    /\ pc \in {"mask", "save"} =>
           canvas = ComposedInOrder(SubSeq(detections, 1, i - 1))
    /\ pc \in {"feather", "patch", "composite"} =>
           face = ExpandBox(detections[i], img.w, img.h)

\* C3 happens: two regions were composited and the result differs from the
\* second region composited over the untouched original.
CompositesAccumulateInOrderWitness ==
    /\ pc = "save"
    /\ Len(detections) = 2
    /\ detections[1] # detections[2]
    /\ canvas # drawImage(drawImage(createCanvas(img.w, img.h), img),
                          PatchOf(detections[2]))
    /\ canvas # drawImage(createCanvas(img.w, img.h), img)

\* The detection box that covers a whole w x h image.
FullBox(w, h) == Box(0, 0, w, h)

\* C4 as stated, refuted: with exactly one region whose box covers the full
\* image, every pixel of the output, corners included, equals the globally
\* blurred image within rounding (one 8-bit level).
FullBoxEqualsBlurred ==
    (pc = "done" /\ detections = <<FullBox(img.w, img.h)>>) =>
        \A oi \in DOMAIN encoded :
            Abs(encoded[oi] - blurredCanvas.data[oi]) <= 1

\* C4, amended: with exactly one region whose box covers the full image
\* and an image of alpha 255 throughout, every pixel of the output at which
\* the feathered mask is fully opaque equals the globally blurred image;
\* the mask is the ellipse inscribed in the image, so the other pixels,
\* corners among them, keep a share of the original.
FullBoxBlursMaskedPixels ==
    (pc = "done" /\ detections = <<FullBox(img.w, img.h)>> /\ Opaque(img)) =>
        \A oi \in DOMAIN encoded :
            /\ featherCanvas.data[AlphaOf(oi)] = 255 =>
                   encoded[oi] = blurredCanvas.data[oi]
            /\ IsLerp(encoded[oi], img.data[oi], blurredCanvas.data[oi],
                      featherCanvas.data[AlphaOf(oi)])

\* C4 happens: an opaque image that its blur changes was saved with one
\* region covering it, the mask fully opaque everywhere, and the output is
\* the blurred image.
FullBoxBlursMaskedPixelsWitness ==
    /\ pc = "done"
    /\ detections = <<FullBox(img.w, img.h)>>
    /\ Opaque(img)
    /\ \A oi \in DOMAIN encoded : featherCanvas.data[AlphaOf(oi)] = 255
    /\ encoded = blurredCanvas.data
    /\ encoded # img.data

\* ------------------------------------------------------------------------
\* Properties of the pipeline on wide images (checked under SpecWide)
\* ------------------------------------------------------------------------

\* The expanded box of the k-th detection.
FaceOf(k) == ExpandBox(detections[k], img.w, img.h)

\* Whether the detections are two adjacent boxes that do not overlap.
TwoAdjacent ==
    /\ Len(detections) = 2
    /\ \/ detections[1].x + detections[1].width = detections[2].x
       \/ detections[2].x + detections[2].width = detections[1].x
    /\ detections[1].y = detections[2].y
    /\ detections[1].height = detections[2].height

\* Whether the whole of pixel (col, row) of a one-row image lies outside
\* the padded ellipse of expanded box f and farther than dist pixels from
\* its boundary.  On one row the ellipse spans fx .. fx + fw along the row's
\* axis; lengths are in tenths of a pixel.
FartherThan(f, col, row, dist) ==
    /\ ~InEllipse(f, col, row)
    /\ \/ 10 * col - (f.fx + f.fw) > 10 * dist
       \/ f.fx - 10 * (col + 1) > 10 * dist

\* Whether pixel (col, row) of the output is the decoded pixel.
SameAsSource(col, row) ==
    \A ch \in 0 .. 3 :
        encoded[(row * img.w + col) * 4 + ch] = img.data[(row * img.w + col) * 4 + ch]

\* C6 as stated, refuted: with two adjacent, non-overlapping regions, every
\* pixel outside both padded ellipses and farther than the feather radius
\* from each ellipse's boundary is identical to the source pixel.
UntouchedBeyondFeatherRadius ==
    (pc = "done" /\ TwoAdjacent /\ img.h = 1) =>
        \A col \in 0 .. img.w - 1 :
            (\A k \in 1 .. 2 : FartherThan(FaceOf(k), col, 0, FEATHER_RADIUS)) =>
                SameAsSource(col, 0)

\* Whether some pixel covered by the ellipse of expanded box f lies within
\* reach columns and reach rows of pixel (col, row).
WithinReach(f, col, row, reach) ==
    \E c \in 0 .. img.w - 1, r \in 0 .. img.h - 1 :
        /\ InEllipse(f, c, r)
        /\ Abs(c - col) <= reach
        /\ Abs(r - row) <= reach

\* C6, amended: with two adjacent, non-overlapping regions, every pixel
\* that has no pixel of either padded ellipse within the feathering
\* kernel's half-width, ceil(3 * max(1, FEATHER_RADIUS / 2.5)) = 41 columns
\* and rows, is identical to the source pixel.
UntouchedBeyondKernelReach ==
    (pc = "done" /\ TwoAdjacent) =>
        \A col \in 0 .. img.w - 1, row \in 0 .. img.h - 1 :
            (\A k \in 1 .. 2 :
                ~WithinReach(FaceOf(k), col, row, KHalf(FEATHER_RADIUS))) =>
                SameAsSource(col, row)

\* C6 happens: two adjacent regions were composited, the blur alone would
\* have changed a pixel beyond the kernel's reach of both ellipses, and that
\* pixel was saved as decoded, while a pixel within reach was changed.
UntouchedBeyondKernelReachWitness ==
    /\ pc = "done"
    /\ TwoAdjacent
    /\ \E col \in 0 .. img.w - 1 :
           /\ \A k \in 1 .. 2 : ~WithinReach(FaceOf(k), col, 0, KHalf(FEATHER_RADIUS))
           /\ blurredCanvas.data[col * 4] # img.data[col * 4]
           /\ SameAsSource(col, 0)
    /\ \E col \in 0 .. img.w - 1 : ~SameAsSource(col, 0)

=============================================================================
